---- MODULE Spec2Model ----
(***************************************************************************)
(* Model of the press-release / news dashboard (db-rilis).                 *)
(*                                                                         *)
(* Text is modelled as a sequence of one-character strings, so that        *)
(* splitting, trimming and the '##' test are computed character by         *)
(* character as Python does.  A spreadsheet cell is a record               *)
(*   [kind |-> "nan" | "str" | "int", s |-> text, n |-> number].           *)
(***************************************************************************)
EXTENDS Integers, Sequences, FiniteSets, TLC

VARIABLES
    pc,                 \* position of the operation being run
    cell_value,         \* process_entities: its argument
    filtered_entities,  \* process_entities: its return value
    df,                 \* process_dataset / get_unique_locations: the dataset
    column_name,        \* ... the column asked for
    returned,           \* what the last call returned (or raised)
    df_sp,              \* the press-release dataset: rows [title, sources, date]
    selected_sp,        \* the press release chosen in the selector
    start_date,         \* "Tanggal Mulai" chosen in the selector (a day)
    end_date,           \* "Tanggal Akhir" chosen in the selector (a day)
    df_sp_filtered,     \* main: the rows filter_dataframe returned
    df_berita,          \* the news dataset: rows [ref, media]
    media_per_sp,       \* main: what count_media_per_sp returned
    berita_per_sp,      \* main: the "Top 10 Siaran Pers" ranking
    remote,             \* st.secrets and the spreadsheet behind the loader
    frames              \* main: the DataFrames load_dataset returned

vars == <<pc, cell_value, filtered_entities, df, column_name, returned,
          df_sp, selected_sp, start_date, end_date, df_sp_filtered,
          df_berita, media_per_sp, berita_per_sp, remote, frames>>

(***************************************************************************)
(* Bounds of the model.                                                    *)
(***************************************************************************)
MaxCellLen == 4         \* longest enumerated cell text
MaxCellInt == 12        \* largest enumerated numeric cell
MaxAggRows == 2         \* most rows of an aggregated dataset
MaxTrendRows == 2       \* most press releases given to the trend builder
MaxRenderRows == 2      \* most press releases of a rendered dashboard
MaxJoinTitles == 2      \* most press releases joined with the news
MaxNewsRows == 2        \* most enumerated news rows
TicksPerDay == 2        \* times of day told apart within one date

(***************************************************************************)
(* Text helpers (Python str methods).                                      *)
(***************************************************************************)
Whitespace == {" "}

RECURSIVE lstrip(_)
lstrip(s) ==
    IF s # <<>> /\ Head(s) \in Whitespace THEN lstrip(Tail(s)) ELSE s

RECURSIVE rstrip(_)
rstrip(s) ==
    IF s # <<>> /\ s[Len(s)] \in Whitespace
    THEN rstrip(SubSeq(s, 1, Len(s) - 1))
    ELSE s

\* str.strip(): leading and trailing whitespace removed
strip(s) == rstrip(lstrip(s))

\* str.find(sep): the first position of sep in s, 0 when there is none
find(s, sep) ==
    LET at == {i \in 1..Len(s) : s[i] = sep}
    IN  IF at = {} THEN 0 ELSE CHOOSE i \in at : \A j \in at : i <= j

\* str.split(sep) with a one-character separator: the text is cut at each
\* separator in turn, left to right; "" gives [""].
RECURSIVE split(_, _)
split(s, sep) ==
    LET cut == find(s, sep)
    IN  IF cut = 0 THEN <<s>>
        ELSE <<SubSeq(s, 1, cut - 1)>> \o split(SubSeq(s, cut + 1, Len(s)), sep)

\* '##' in entity
has_marker(s) == \E i \in 1..(Len(s) - 1) : s[i] = "#" /\ s[i + 1] = "#"

Digit(d) == <<"0", "1", "2", "3", "4", "5", "6", "7", "8", "9">>[d + 1]

RECURSIVE int_str(_)
int_str(n) == IF n < 10 THEN <<Digit(n)>>
              ELSE Append(int_str(n \div 10), Digit(n % 10))

\* str(cell_value) of a non-missing cell
py_str(cell) == IF cell.kind = "int" THEN int_str(cell.n) ELSE cell.s

\* pd.isna(cell_value)
isna(cell) == cell.kind = "nan"

NaN == [kind |-> "nan", s |-> <<>>, n |-> 0]
StrCell(s) == [kind |-> "str", s |-> s, n |-> 0]
IntCell(n) == [kind |-> "int", s |-> <<>>, n |-> n]

(***************************************************************************)
(* data_loader.process_entities                                            *)
(***************************************************************************)
\* [entity.strip() for entity in str(cell_value).split(',')]
strip_all(pieces) == [i \in 1..Len(pieces) |-> strip(pieces[i])]

\* [entity for entity in entities if '##' not in entity]
drop_marked(entities) == SelectSeq(entities, LAMBDA e : ~has_marker(e))

process_entities_unstripped(cell) ==
    IF isna(cell) THEN <<>>
    ELSE drop_marked(split(py_str(cell), ","))

process_entities(cell) ==
    IF isna(cell) THEN <<>>
    ELSE drop_marked(strip_all(split(py_str(cell), ",")))

(***************************************************************************)
(* Specification of the entity extractor: one call of process_entities on  *)
(* an arbitrary cell.                                                      *)
(***************************************************************************)
CellChars == {"A", "a", "B", ",", " ", "#"}

RECURSIVE TextsUpTo(_, _)
TextsUpTo(chars, n) ==
    IF n = 0 THEN {<<>>}
    ELSE LET shorter == TextsUpTo(chars, n - 1)
         IN  shorter \cup {Append(t, c) : t \in shorter, c \in chars}

\* "A, B##x, C"
ExampleCell == StrCell(<<"A", ",", " ", "B", "#", "#", "x", ",", " ", "C">>)

CellValues ==
    {NaN, ExampleCell}
        \cup {StrCell(t) : t \in TextsUpTo(CellChars, MaxCellLen)}
        \cup {IntCell(n) : n \in 0..MaxCellInt}

ExtractIdle == cell_value = NaN /\ filtered_entities = <<>>

AggregateIdle ==
    /\ df = [columns |-> <<>>, rows |-> <<>>]
    /\ column_name = ""
    /\ returned = [op |-> ""]

SelectorIdle == start_date = 0 /\ end_date = 0 /\ df_sp_filtered = <<>>

NewsIdle == df_berita = <<>> /\ media_per_sp = <<>> /\ berita_per_sp = <<>>

LoaderIdle == remote = <<>> /\ frames = <<>>

DashboardIdle == df_sp = <<>> /\ selected_sp = <<>> /\ SelectorIdle /\ NewsIdle

InitExtract ==
    /\ pc = "extract"
    /\ LoaderIdle
    /\ cell_value \in CellValues
    /\ filtered_entities = <<>>
    /\ AggregateIdle
    /\ DashboardIdle

ProcessEntities ==
    /\ pc = "extract"
    /\ filtered_entities' = process_entities(cell_value)
    /\ pc' = "extract_done"
    /\ UNCHANGED <<cell_value, df, column_name, returned, df_sp, selected_sp,
                   start_date, end_date, df_sp_filtered,
                   df_berita, media_per_sp, berita_per_sp,
                   remote, frames>>

NextExtract == ProcessEntities

SpecExtract == InitExtract /\ [][NextExtract]_vars

(***************************************************************************)
(* Claims about the entity extractor.                                      *)
(***************************************************************************)
\* Positions of the separators of s, and the pieces between them, stated
\* by position rather than by scanning.
SepPositions(s, sep) == {i \in 1..Len(s) : s[i] = sep}

PieceCount(s, sep) == Cardinality(SepPositions(s, sep)) + 1

\* position of the k-th separator (0 for k = 0, Len(s) + 1 past the last)
SepAt(s, sep, k) ==
    IF k = 0 THEN 0
    ELSE IF k > Cardinality(SepPositions(s, sep)) THEN Len(s) + 1
    ELSE CHOOSE i \in SepPositions(s, sep) :
            Cardinality({j \in SepPositions(s, sep) : j <= i}) = k

PieceAt(s, sep, k) == SubSeq(s, SepAt(s, sep, k - 1) + 1, SepAt(s, sep, k) - 1)

\* the text between the first and the last non-blank character
Trimmed(p) ==
    LET solid == {i \in 1..Len(p) : p[i] \notin Whitespace}
    IN  IF solid = {} THEN <<>>
        ELSE SubSeq(p, CHOOSE i \in solid : \A j \in solid : i <= j,
                       CHOOSE i \in solid : \A j \in solid : i >= j)

ExpectedEntities(s, sep) ==
    SelectSeq([k \in 1..PieceCount(s, sep) |-> Trimmed(PieceAt(s, sep, k))],
              LAMBDA e : \A i \in 1..(Len(e) - 1) : ~(e[i] = "#" /\ e[i + 1] = "#"))

\* C1: for every non-missing cell, process_entities returns the pieces of
\* the cell's string form between commas, each trimmed, those containing
\* '##' removed, in order, repeats kept, case kept; 'A, B##x, C' gives
\* ['A', 'C'].
C1_SplitTrimFilter ==
    (pc = "extract_done" /\ ~isna(cell_value)) =>
        /\ filtered_entities = ExpectedEntities(py_str(cell_value), ",")
        /\ (cell_value = ExampleCell =>
                filtered_entities = << <<"A">>, <<"C">> >>)
        /\ (cell_value = IntCell(12) => filtered_entities = << <<"1", "2">> >>)

C1_Witness ==
    /\ pc = "extract_done"
    /\ cell_value = ExampleCell
    /\ filtered_entities = << <<"A">>, <<"C">> >>

\* C2: for a missing cell and for the empty string, process_entities
\* returns [].
C2_EmptyCellGivesEmptyList ==
    (pc = "extract_done" /\ (isna(cell_value) \/ cell_value = StrCell(<<>>))) =>
        filtered_entities = <<>>

\* C3: no returned entity is empty after trimming and none contains '##'.
C3_NoEmptyNoMarked ==
    pc = "extract_done" =>
        \A i \in 1..Len(filtered_entities) :
            /\ strip(filtered_entities[i]) # <<>>
            /\ ~has_marker(filtered_entities[i])

(***************************************************************************)
(* data_loader.process_dataset and data_loader.get_unique_locations        *)
(*                                                                         *)
(* A dataset is [columns |-> <<names>>, rows |-> <<rows>>], a row being    *)
(* the sequence of its cells in column order.  A call's outcome is a       *)
(* record whose field raised names the exception that left it ("" when it  *)
(* returned).                                                              *)
(***************************************************************************)
Range(f) == {f[i] : i \in DOMAIN f}

\* column_name in df.columns
has_column(d, name) == \E i \in 1..Len(d.columns) : d.columns[i] = name

column_index(d, name) == CHOOSE i \in 1..Len(d.columns) : d.columns[i] = name

\* df[column_name]: the cells of the column, in row order
column(d, name) ==
    [r \in 1..Len(d.rows) |-> d.rows[r][column_index(d, name)]]

RECURSIVE extend_all(_)
extend_all(lists) ==
    IF lists = <<>> THEN <<>> ELSE Head(lists) \o extend_all(Tail(lists))

\* pd.Series(values).value_counts(): each distinct value with its number of
\* occurrences (missing values are not counted)
value_counts(values) ==
    [v \in Range(values) |-> Cardinality({i \in DOMAIN values : values[i] = v})]

\* pd.Series()
empty_series == <<>>

process_dataset_computed(d, name) ==
    LET entities_series == [r \in 1..Len(d.rows) |->
                               process_entities(column(d, name)[r])]
        all_entities == extend_all(entities_series)
    IN  [op |-> "process_dataset", raised |-> "", df |-> d,
         entity_counts |-> value_counts(all_entities)]

process_dataset_unguarded(d, name) ==
    IF ~has_column(d, name)
    THEN [op |-> "process_dataset", raised |-> "KeyError", df |-> d,
          entity_counts |-> empty_series]
    ELSE process_dataset_computed(d, name)

process_dataset(d, name) ==
    IF ~has_column(d, name)
    THEN [op |-> "process_dataset", raised |-> "", df |-> d,
          entity_counts |-> empty_series]
    ELSE process_dataset_computed(d, name)

get_unique_locations(d, location_column) ==
    IF ~has_column(d, location_column)
    THEN [op |-> "get_unique_locations", raised |-> "", locations |-> {}]
    ELSE LET cells == column(d, location_column)
             found == [r \in 1..Len(cells) |->
                          IF isna(cells[r]) THEN <<>>
                          ELSE process_entities(cells[r])]
         IN  [op |-> "get_unique_locations", raised |-> "",
              \* list(set(locations)): the order is not specified
              locations |-> Range(extend_all(found))]

(***************************************************************************)
(* Specification of the aggregator: one call of process_dataset or of      *)
(* get_unique_locations on an arbitrary small dataset and column name.     *)
(***************************************************************************)
AggCells ==
    {NaN,
     StrCell(<<>>),
     StrCell(<<"A">>),
     StrCell(<<"A", ",", " ", "B">>),
     StrCell(<<"B", "#", "#", ",", "A">>)}

AggColumns == {<<>>, <<"Narasumber">>, <<"Lokasi">>, <<"Narasumber", "Lokasi">>}

AggColumnNames == {"Narasumber", "Lokasi", "Media"}

RECURSIVE SeqsUpTo(_, _)
SeqsUpTo(S, n) ==
    IF n = 0 THEN {<<>>}
    ELSE LET shorter == SeqsUpTo(S, n - 1)
         IN  shorter \cup {Append(q, x) : q \in shorter, x \in S}

\* a dataset without columns has no rows (pd.DataFrame())
AggDatasets ==
    UNION {{[columns |-> cols, rows |-> rws] :
                rws \in IF cols = <<>> THEN {<<>>}
                        ELSE SeqsUpTo([1..Len(cols) -> AggCells], MaxAggRows)} :
           cols \in AggColumns}

InitAggregate ==
    /\ pc = "aggregate"
    /\ LoaderIdle
    /\ df \in AggDatasets
    /\ column_name \in AggColumnNames
    /\ returned = [op |-> ""]
    /\ ExtractIdle
    /\ DashboardIdle

ProcessDataset ==
    /\ pc = "aggregate"
    /\ returned' = process_dataset(df, column_name)
    /\ pc' = "aggregate_done"
    /\ UNCHANGED <<df, column_name, cell_value, filtered_entities,
                   df_sp, selected_sp, start_date, end_date, df_sp_filtered,
                   df_berita, media_per_sp, berita_per_sp,
                   remote, frames>>

GetUniqueLocations ==
    /\ pc = "aggregate"
    /\ returned' = get_unique_locations(df, column_name)
    /\ pc' = "aggregate_done"
    /\ UNCHANGED <<df, column_name, cell_value, filtered_entities,
                   df_sp, selected_sp, start_date, end_date, df_sp_filtered,
                   df_berita, media_per_sp, berita_per_sp,
                   remote, frames>>

NextAggregate == ProcessDataset \/ GetUniqueLocations

SpecAggregate == InitAggregate /\ [][NextAggregate]_vars

\* C4: aggregating over a column the dataset does not have returns an empty
\* result (empty counts from process_dataset, empty list from
\* get_unique_locations) without raising, the dataset returned unchanged.
C4_AbsentColumnEmptyResult ==
    (pc = "aggregate_done" /\ ~has_column(df, column_name)) =>
        /\ returned.raised = ""
        /\ (returned.op = "process_dataset" =>
                returned.entity_counts = <<>> /\ returned.df = df)
        /\ (returned.op = "get_unique_locations" => returned.locations = {})

C4_Witness ==
    /\ pc = "aggregate_done"
    /\ ~has_column(df, column_name)
    /\ Len(df.rows) > 0
    /\ returned.op = "process_dataset"
    /\ returned.entity_counts = <<>>

(***************************************************************************)
(* Dates.  A date cell is [parsable, day, tod]: whether pd.to_datetime can *)
(* read its text and, if so, the day (counted from a Monday) and the time  *)
(* of day it denotes.  A Timestamp is a number of ticks, TicksPerDay to    *)
(* the day; NaT is the missing Timestamp.                                  *)
(***************************************************************************)
NaT == -1

\* pd.to_datetime(cell, errors='coerce')
to_datetime(cell) ==
    IF cell.parsable THEN cell.day * TicksPerDay + cell.tod ELSE NaT

\* Timestamp.date()
dt_date(ts) == ts \div TicksPerDay

\* Timestamp.weekday(): Monday is 0
weekday(ts) == dt_date(ts) % 7

\* pd.Timedelta(days=n)
Timedelta_days(n) == n * TicksPerDay

(***************************************************************************)
(* app.create_sources_trend_analysis                                       *)
(***************************************************************************)
\* "Semua Siaran Pers"
SemuaSiaranPers ==
    <<"S", "e", "m", "u", "a", " ", "S", "i", "a", "r", "a", "n", " ",
      "P", "e", "r", "s">>

\* top_sources = narasumber_counts.head(10)
TopN == 10

Min(a, b) == IF a <= b THEN a ELSE b

\* df[df[df.columns[0]] == selected_sp], unless all press releases are selected
select_sp(rows, selected) ==
    IF selected # SemuaSiaranPers
    THEN SelectSeq(rows, LAMBDA r : r.title = selected)
    ELSE rows

\* df[date_col] = pd.to_datetime(df[date_col], errors='coerce')
convert_dates(rows) ==
    [i \in 1..Len(rows) |->
        [title |-> rows[i].title, sources |-> rows[i].sources,
         date |-> to_datetime(rows[i].date)]]

\* df.dropna(subset=[date_col])
dropna_date(rows) == SelectSeq(rows, LAMBDA r : r.date # NaT)

\* the entities of one row: pieces between semicolons, stripped, blanks skipped
row_entities(cell) ==
    IF isna(cell) THEN <<>>
    ELSE SelectSeq(strip_all(split(cell.s, ";")), LAMBDA e : e # <<>>)

get_week_start_keeping_date(date) == date

\* date - pd.Timedelta(days=date.weekday())
get_week_start(date) == date - Timedelta_days(weekday(date))

\* all_entities_data with the column Minggu added
entities_of_rows(rows) ==
    extend_all([i \in 1..Len(rows) |->
        LET entities == row_entities(rows[i].sources)
        IN  [j \in 1..Len(entities) |->
                [Narasumber |-> entities[j],
                 Tanggal |-> rows[i].date,
                 Minggu |-> get_week_start(rows[i].date)]]])

\* entities_df.groupby(['Narasumber', 'Minggu']).size().reset_index(name='Frekuensi')
group_weekly(entities_df) ==
    {[Narasumber |-> g[1], Minggu |-> g[2],
      Frekuensi |-> Cardinality({i \in DOMAIN entities_df :
                        /\ entities_df[i].Narasumber = g[1]
                        /\ entities_df[i].Minggu = g[2]})] :
        g \in {<<entities_df[i].Narasumber, entities_df[i].Minggu>> :
                i \in DOMAIN entities_df}}

RECURSIVE sum_Frekuensi(_)
sum_Frekuensi(points) ==
    IF points = {} THEN 0
    ELSE LET p == CHOOSE p \in points : TRUE
         IN  p.Frekuensi + sum_Frekuensi(points \ {p})

\* weekly_counts.groupby('Narasumber')['Frekuensi'].sum()
sum_by_Narasumber(weekly_counts) ==
    [e \in {p.Narasumber : p \in weekly_counts} |->
        sum_Frekuensi({p \in weekly_counts : p.Narasumber = e})]

\* the orders of S in which sign * totals never rises
RECURSIVE orders_by(_, _, _)
orders_by(S, totals, sign) ==
    IF S = {} THEN {<<>>}
    ELSE UNION {{<<e>> \o r : r \in orders_by(S \ {e}, totals, sign)} :
                e \in {x \in S : \A y \in S :
                            sign * totals[x] >= sign * totals[y]}}

sort_values_ascending(totals) == orders_by(DOMAIN totals, totals, -1)

\* Series.sort_values(ascending=False): the index in an order of falling
\* values; the default sort is not stable, so equal values come in any order
sort_values_descending(totals) == orders_by(DOMAIN totals, totals, 1)

\* Series.head(n)
head(ranking, n) == SubSeq(ranking, 1, Min(n, Len(ranking)))

trend_warning(text) ==
    [op |-> "trend", raised |-> "", warning |-> text, total_sp |-> 0,
     weekly_counts |-> {}, total_narasumber |-> 0, top_sources |-> <<>>,
     plot_data |-> {}]

\* the outcomes of one call, one for each order the sort may give ties
create_sources_trend_analysis(rows, selected) ==
    LET chosen == select_sp(rows, selected)
        dated == dropna_date(convert_dates(chosen))
        entities_df == entities_of_rows(dated)
        weekly_counts == group_weekly(entities_df)
        totals == sum_by_Narasumber(weekly_counts)
    IN  IF chosen = <<>>
        THEN {trend_warning("Tidak ada data untuk dianalisis")}
        ELSE IF entities_df = <<>>
        THEN {trend_warning("Tidak ada narasumber yang ditemukan")}
        ELSE {[op |-> "trend", raised |-> "", warning |-> "",
               total_sp |-> Len(dated),
               weekly_counts |-> weekly_counts,
               total_narasumber |-> Len(narasumber_counts),
               top_sources |-> head(narasumber_counts, TopN),
               plot_data |-> {p \in weekly_counts :
                    p.Narasumber \in Range(head(narasumber_counts, TopN))}] :
              narasumber_counts \in sort_values_descending(totals)}

(***************************************************************************)
(* Specification of the trend builder: one call on an arbitrary small      *)
(* press-release dataset and selection.                                    *)
(***************************************************************************)
TitleR1 == <<"R", "1">>
TitleR2 == <<"R", "2">>

RECURSIVE join(_, _)
join(tokens, sep) ==
    IF tokens = <<>> THEN <<>>
    ELSE IF Len(tokens) = 1 THEN Head(tokens)
    ELSE Head(tokens) \o <<sep>> \o join(Tail(tokens), sep)

RECURSIVE repeated(_, _)
repeated(token, n) == IF n = 0 THEN <<>> ELSE <<token>> \o repeated(token, n - 1)

\* eleven sources, named "a" to "k", mentioned 10, 9, 8, ... 2, 1, 1 times
ManyNames == <<"a", "b", "c", "d", "e", "f", "g", "h", "i", "j", "k">>
ManyWeights == <<10, 9, 8, 7, 6, 5, 4, 3, 2, 1, 1>>

ManySourcesCell ==
    StrCell(join(extend_all([i \in 1..Len(ManyNames) |->
                    repeated(<<ManyNames[i]>>, ManyWeights[i])]), ";"))

TrendSourceCells ==
    {NaN,
     \* "k; a##x;; a"
     StrCell(<<"k", ";", " ", "a", "#", "#", "x", ";", ";", " ", "a">>)}

\* a Tuesday at each time of day, the Thursday of the same week, and the
\* Tuesday two weeks later
DateCells ==
    {[parsable |-> FALSE, day |-> 0, tod |-> 0],
     [parsable |-> TRUE, day |-> 3, tod |-> 0],
     [parsable |-> TRUE, day |-> 15, tod |-> 0]}
        \cup {[parsable |-> TRUE, day |-> 1, tod |-> t] :
                t \in 0..(TicksPerDay - 1)}

\* the press releases a dataset is made of: every combination of a title,
\* a short sources cell and a date, and one release quoting eleven sources
TrendRows ==
    {[title |-> ti, sources |-> so, date |-> da] :
        ti \in {TitleR1, TitleR2}, so \in TrendSourceCells, da \in DateCells}
    \cup {[title |-> TitleR1, sources |-> ManySourcesCell,
           date |-> [parsable |-> TRUE, day |-> 1, tod |-> 0]]}

InitTrend ==
    /\ pc = "trend"
    /\ LoaderIdle
    /\ df_sp \in SeqsUpTo(TrendRows, MaxTrendRows)
    /\ selected_sp \in {SemuaSiaranPers, TitleR1, TitleR2}
    /\ returned = [op |-> ""]
    /\ ExtractIdle
    /\ df = [columns |-> <<>>, rows |-> <<>>]
    /\ column_name = ""
    /\ SelectorIdle
    /\ NewsIdle

TrendAnalysis ==
    /\ pc = "trend"
    /\ returned' \in create_sources_trend_analysis(df_sp, selected_sp)
    /\ pc' = "trend_done"
    /\ UNCHANGED <<cell_value, filtered_entities, df, column_name,
                   df_sp, selected_sp, start_date, end_date, df_sp_filtered,
                   df_berita, media_per_sp, berita_per_sp,
                   remote, frames>>

NextTrend == TrendAnalysis

SpecTrend == InitTrend /\ [][NextTrend]_vars

(***************************************************************************)
(* Claims about the trend builder.  The mentions are counted here from the *)
(* dataset itself: a mention is a position <<row, piece>> of an entity in  *)
(* a selected row whose date is valid.                                     *)
(***************************************************************************)
ValidRows ==
    {i \in 1..Len(df_sp) :
        /\ selected_sp = SemuaSiaranPers \/ df_sp[i].title = selected_sp
        /\ df_sp[i].date.parsable}

Mentions ==
    UNION {LET found == row_entities(df_sp[i].sources)
           IN  {[row |-> i, piece |-> j, name |-> found[j],
                 date |-> to_datetime(df_sp[i].date)] : j \in 1..Len(found)} :
           i \in ValidRows}

\* the week a Timestamp lies in, and the Monday 00:00 that starts it
WeekOf(ts) == (ts \div TicksPerDay) \div 7

MondayOf(ts) == WeekOf(ts) * 7 * TicksPerDay

\* the Timestamp as many days earlier as its day of the week, same time of day
SameTimeOnMonday(ts) == ts - ((ts \div TicksPerDay) % 7) * TicksPerDay

Kept == Range(returned.top_sources)

TrendDrawn == pc = "trend_done" /\ returned.warning = ""

ValidWeeks == {WeekOf(to_datetime(df_sp[i].date)) : i \in ValidRows}

FirstWeek == CHOOSE a \in ValidWeeks : \A b \in ValidWeeks : a <= b

LastWeek == CHOOSE a \in ValidWeeks : \A b \in ValidWeeks : a >= b

C6_OneCellPerEntityAndWeek ==
    TrendDrawn =>
        LET mentions == Mentions
        IN  \A m \in mentions :
                \E p \in returned.weekly_counts :
                    /\ p.Narasumber = m.name
                    /\ p.Minggu = MondayOf(m.date)
                    /\ p.Frekuensi = Cardinality({m2 \in mentions :
                            /\ m2.name = m.name
                            /\ WeekOf(m2.date) = WeekOf(m.date)})

\* C7: the trend data keeps the top_n entities by total mentions: kept
\* entities are observed ones, min(top_n, number of entities) of them, no
\* dropped entity has more mentions than a kept one, and with at most top_n
\* entities all are kept.
C7_TopNByTotal ==
    TrendDrawn =>
        LET mentions == Mentions
            entities == {m.name : m \in mentions}
            total == [e \in entities |->
                        Cardinality({m \in mentions : m.name = e})]
            kept == Kept
        IN  /\ kept \subseteq entities
            /\ {p.Narasumber : p \in returned.plot_data} = kept
            /\ Cardinality(kept) = Min(TopN, Cardinality(entities))
            /\ \A d \in entities \ kept : \A k \in kept : total[d] <= total[k]
            /\ (Cardinality(entities) <= TopN => kept = entities)

\* more than top_n entities: one is dropped, with fewer mentions than a kept one
C7_Witness ==
    /\ TrendDrawn
    /\ LET mentions == Mentions
           entities == {m.name : m \in mentions}
           total == [e \in entities |->
                       Cardinality({m \in mentions : m.name = e})]
       IN  /\ Cardinality(entities) > TopN
           /\ \E d \in entities \ Kept : \E k \in Kept : total[d] < total[k]

\* C12: no entity that contains '##' is counted by the trend builder: not in
\* a cell of the weekly counts, not in the total-sources figure, and not as
\* the most frequent source.
C12_NoMarkedEntityCounted ==
    TrendDrawn =>
        LET counted == {p.Narasumber : p \in returned.weekly_counts}
        IN  /\ \A e \in counted : ~has_marker(e)
            /\ returned.total_narasumber =
                    Cardinality({e \in counted : ~has_marker(e)})
            /\ ~has_marker(returned.top_sources[1])

(***************************************************************************)
(* app.create_sp_selector, app.filter_dataframe and the "Total Siaran      *)
(* Pers" metric of main (tab 1).                                           *)
(*                                                                         *)
(* create_sp_selector converts the date column in place; a date cell       *)
(* already stands for what pd.to_datetime makes of it, so the rows are     *)
(* left as they are and to_datetime is applied where a date is read.       *)
(***************************************************************************)
\* ["Semua Siaran Pers"] + list(df_sp[sp_title_col].dropna().unique())
sp_titles(rows) == {SemuaSiaranPers} \cup {rows[i].title : i \in 1..Len(rows)}

valid_dates(rows) ==
    {to_datetime(rows[i].date) : i \in {j \in 1..Len(rows) : rows[j].date.parsable}}

\* df_sp[sp_date_col].min().date() and .max().date(): NaT is skipped
min_date(rows) ==
    dt_date(CHOOSE a \in valid_dates(rows) : \A b \in valid_dates(rows) : a <= b)

max_date(rows) ==
    dt_date(CHOOSE a \in valid_dates(rows) : \A b \in valid_dates(rows) : a >= b)

\* df[date_col].dt.date >= start_date: False for NaT
on_or_after(ts, day) == ts # NaT /\ dt_date(ts) >= day

\* df[date_col].dt.date <= end_date: False for NaT
on_or_before(ts, day) == ts # NaT /\ dt_date(ts) <= day

filter_dataframe(rows, selected_title, start, end) ==
    LET in_range == SelectSeq(rows, LAMBDA r :
                        /\ on_or_after(to_datetime(r.date), start)
                        /\ on_or_before(to_datetime(r.date), end))
    IN  IF selected_title = SemuaSiaranPers THEN in_range
        ELSE SelectSeq(in_range, LAMBDA r : r.title = selected_title)

(***************************************************************************)
(* Specification of tab 1 of a render: the user's selection, then the      *)
(* filter and the total shown.                                             *)
(***************************************************************************)
RenderRows ==
    {[title |-> ti, sources |-> so, date |-> da] :
        ti \in {TitleR1, TitleR2}, so \in TrendSourceCells \ {NaN},
        da \in DateCells}

InitRender ==
    /\ pc = "selector"
    /\ LoaderIdle
    /\ df_sp \in SeqsUpTo(RenderRows, MaxRenderRows)
    /\ selected_sp = <<>>
    /\ SelectorIdle
    /\ NewsIdle
    /\ returned = [op |-> ""]
    /\ ExtractIdle
    /\ df = [columns |-> <<>>, rows |-> <<>>]
    /\ column_name = ""

\* the widgets offer the titles of the dataset and the days from the
\* earliest to the latest valid date; the user picks among them
CreateSpSelector ==
    /\ pc = "selector"
    /\ valid_dates(df_sp) # {}
    /\ selected_sp' \in sp_titles(df_sp)
    /\ start_date' \in {min_date(df_sp), max_date(df_sp)}
    /\ end_date' \in {min_date(df_sp), max_date(df_sp)}
    /\ pc' = "filter"
    /\ UNCHANGED <<cell_value, filtered_entities, df, column_name, returned,
                   df_sp, df_sp_filtered, df_berita, media_per_sp,
                   berita_per_sp,
                   remote, frames>>

\* without any valid date min() and max() are NaT, and what the date
\* widgets make of NaT bounds is not decided by this repository
CreateSpSelectorWithoutDates ==
    /\ pc = "selector"
    /\ valid_dates(df_sp) = {}
    /\ pc' = "selector_without_dates"
    /\ UNCHANGED <<cell_value, filtered_entities, df, column_name, returned,
                   df_sp, selected_sp, start_date, end_date, df_sp_filtered,
                   df_berita, media_per_sp, berita_per_sp,
                   remote, frames>>

\* df_sp_filtered = filter_dataframe(...); st.metric("Total Siaran Pers", ...)
FilterDataframe ==
    /\ pc = "filter"
    /\ df_sp_filtered' = filter_dataframe(df_sp, selected_sp, start_date, end_date)
    /\ returned' = [op |-> "metric", label |-> "Total Siaran Pers",
                    value |-> Len(df_sp_filtered')]
    /\ pc' = "filtered"
    /\ UNCHANGED <<cell_value, filtered_entities, df, column_name,
                   df_sp, selected_sp, start_date, end_date,
                   df_berita, media_per_sp, berita_per_sp,
                   remote, frames>>

\* create_sources_trend_analysis(df_sp, sp_sources_col, sp_date_col, selected_sp)
SourcesTrendAnalysis ==
    /\ pc = "filtered"
    /\ returned' \in create_sources_trend_analysis(df_sp, selected_sp)
    /\ pc' = "tab1_trend"
    /\ UNCHANGED <<cell_value, filtered_entities, df, column_name,
                   df_sp, selected_sp, start_date, end_date, df_sp_filtered,
                   df_berita, media_per_sp, berita_per_sp,
                   remote, frames>>

NextRender ==
    \/ CreateSpSelector
    \/ CreateSpSelectorWithoutDates
    \/ FilterDataframe
    \/ SourcesTrendAnalysis

SpecRender == InitRender /\ [][NextRender]_vars

\* C8: a record whose date cannot be parsed stays a record of the dataset:
\* with 'Semua Siaran Pers' and the full date range selected, the total
\* shown counts every record, the undated ones included.
C8_UndatedCountedInTotal ==
    (/\ pc = "filtered"
     /\ selected_sp = SemuaSiaranPers
     /\ start_date = min_date(df_sp)
     /\ end_date = max_date(df_sp))
        => returned.value = Len(df_sp)

\* the mentions in the rows filter_dataframe returned: one for each
\* position <<row, piece>> of an entity
FilteredMentions ==
    UNION {LET found == row_entities(df_sp_filtered[i].sources)
           IN  {[row |-> i, piece |-> j, name |-> found[j],
                 date |-> to_datetime(df_sp_filtered[i].date)] :
                    j \in 1..Len(found)} :
           i \in 1..Len(df_sp_filtered)}

\* C14: every row filter_dataframe returned has start_date <= date <=
\* end_date and, unless 'Semua Siaran Pers' is selected, the selected title;
\* and the trend of tab 1 is computed over those rows only: every cell
\* counts the mentions of its entity and bucket in the filtered rows, so a
\* press release dated outside the range adds to no cell and opens no bucket.
C14_TrendOverFilteredRows ==
    (pc = "tab1_trend" /\ returned.warning = "") =>
        LET mentions == FilteredMentions
        IN  /\ \A i \in 1..Len(df_sp_filtered) :
                  /\ df_sp_filtered[i].date.parsable
                  /\ start_date <= dt_date(to_datetime(df_sp_filtered[i].date))
                  /\ dt_date(to_datetime(df_sp_filtered[i].date)) <= end_date
                  /\ selected_sp # SemuaSiaranPers
                        => df_sp_filtered[i].title = selected_sp
            /\ \A p \in returned.weekly_counts :
                  p.Frekuensi = Cardinality({m \in mentions :
                        /\ m.name = p.Narasumber
                        /\ SameTimeOnMonday(m.date) = p.Minggu})

(***************************************************************************)
(* app.count_media_per_sp and the "Top 10 Siaran Pers dengan Pemberitaan   *)
(* Terbanyak" ranking of main (tab 2).                                     *)
(***************************************************************************)
\* berita_per_sp = df_berita[berita_sp_ref_col].value_counts().head(10)
TopSP == 10

\* df_berita[berita_sp_ref_col] == sp_title
ref_equals(ref, sp_title) == ref.kind = "str" /\ ref.s = sp_title

\* for each press-release title, the number of distinct media among the
\* news rows whose reference equals it
count_media_per_sp(sp_rows, news_rows) ==
    [sp_title \in {sp_rows[i].title : i \in 1..Len(sp_rows)} |->
        LET related_berita == SelectSeq(news_rows,
                                 LAMBDA r : ref_equals(r.ref, sp_title))
        \* related_berita[df_berita.columns[3]].nunique()
        IN  Cardinality({related_berita[i].media : i \in 1..Len(related_berita)})]

\* Series.value_counts() of the reference column: missing references are
\* left out, the rest counted and ordered by falling count
ref_counts(news_rows) ==
    value_counts([i \in 1..Len(SelectSeq(news_rows, LAMBDA r : ~isna(r.ref))) |->
                    SelectSeq(news_rows, LAMBDA r : ~isna(r.ref))[i].ref.s])

\* the possible rankings, one for each order the sort may give ties
top_berita_per_sp(news_rows) ==
    {[index |-> head(ranking, TopSP), count |-> ref_counts(news_rows)] :
        ranking \in sort_values_descending(ref_counts(news_rows))}

(***************************************************************************)
(* Specification of tab 2 of a render: the join of the news with the       *)
(* press releases on small datasets.                                       *)
(***************************************************************************)
TitleLowerR1 == <<"r", "1">>
TitleR1Space == <<"R", "1", " ">>
TitleR9 == <<"R", "9">>

NewsRefs ==
    {NaN, StrCell(TitleR1), StrCell(TitleR1Space), StrCell(TitleLowerR1),
     StrCell(TitleR2), StrCell(TitleR9)}

NewsMedia == {<<"M", "1">>, <<"M", "2">>}

NewsRows == {[ref |-> re, media |-> me] : re \in NewsRefs, me \in NewsMedia}

\* references R1, R1, R2, R9
ScenarioNews ==
    <<[ref |-> StrCell(TitleR1), media |-> <<"M", "1">>],
      [ref |-> StrCell(TitleR1), media |-> <<"M", "2">>],
      [ref |-> StrCell(TitleR2), media |-> <<"M", "1">>],
      [ref |-> StrCell(TitleR9), media |-> <<"M", "1">>]>>

JoinRows ==
    {[title |-> ti, sources |-> NaN,
      date |-> [parsable |-> TRUE, day |-> 1, tod |-> 0]] :
        ti \in {TitleR1, TitleR2}}

InitJoin ==
    /\ pc = "tab2"
    /\ LoaderIdle
    /\ df_sp \in SeqsUpTo(JoinRows, MaxJoinTitles)
    /\ df_berita \in SeqsUpTo(NewsRows, MaxNewsRows) \cup {ScenarioNews}
    /\ media_per_sp = <<>>
    /\ berita_per_sp = <<>>
    /\ selected_sp = <<>>
    /\ SelectorIdle
    /\ returned = [op |-> ""]
    /\ ExtractIdle
    /\ df = [columns |-> <<>>, rows |-> <<>>]
    /\ column_name = ""

\* media_per_sp = count_media_per_sp(df_sp, df_berita, ...)
CountMediaPerSp ==
    /\ pc = "tab2"
    /\ media_per_sp' = count_media_per_sp(df_sp, df_berita)
    /\ pc' = "tab2_top"
    /\ UNCHANGED <<cell_value, filtered_entities, df, column_name, returned,
                   df_sp, selected_sp, start_date, end_date, df_sp_filtered,
                   df_berita, berita_per_sp,
                   remote, frames>>

\* berita_per_sp = df_berita[berita_sp_ref_col].value_counts().head(10)
TopSiaranPers ==
    /\ pc = "tab2_top"
    /\ berita_per_sp' \in top_berita_per_sp(df_berita)
    /\ pc' = "tab2_done"
    /\ UNCHANGED <<cell_value, filtered_entities, df, column_name, returned,
                   df_sp, selected_sp, start_date, end_date, df_sp_filtered,
                   df_berita, media_per_sp,
                   remote, frames>>

NextJoin == CountMediaPerSp \/ TopSiaranPers

SpecJoin == InitJoin /\ [][NextJoin]_vars

SpTitles == {df_sp[i].title : i \in 1..Len(df_sp)}

\* C9: the ranking lists only press-release titles, each with the number
\* of news rows referring to it, in falling order of count and at most
\* top_n long; a reference matching no title is not listed.
C9_RankingListsOnlyTitles ==
    pc = "tab2_done" =>
        /\ Len(berita_per_sp.index) <= TopSP
        /\ \A i \in 1..Len(berita_per_sp.index) :
              LET listed == berita_per_sp.index[i]
              IN  /\ listed \in SpTitles
                  /\ berita_per_sp.count[listed] =
                        Cardinality({n \in 1..Len(df_berita) :
                            df_berita[n].ref = StrCell(listed)})
                  /\ \A j \in (i + 1)..Len(berita_per_sp.index) :
                        berita_per_sp.count[listed] >=
                            berita_per_sp.count[berita_per_sp.index[j]]
        /\ \A n \in 1..Len(df_berita) :
              (~isna(df_berita[n].ref) /\ df_berita[n].ref.s \notin SpTitles) =>
                  \A i \in 1..Len(berita_per_sp.index) :
                      berita_per_sp.index[i] # df_berita[n].ref.s

\* C10: a news row matches a press release when its reference and the
\* title are equal after trimming surrounding whitespace (and only then):
\* count_media_per_sp counts, for each title, the media of those rows.
C10_MatchAfterTrimming ==
    pc \in {"tab2_top", "tab2_done"} =>
        \A sp_title \in SpTitles :
            media_per_sp[sp_title] =
                Cardinality({df_berita[n].media :
                    n \in {k \in 1..Len(df_berita) :
                            /\ ~isna(df_berita[k].ref)
                            /\ strip(df_berita[k].ref.s) = strip(sp_title)}})

(***************************************************************************)
(* data_loader.connect_to_sheets, data_loader.load_dataset and the start   *)
(* of app.main: loading the two datasets, the both-empty test and the      *)
(* positional column definitions.                                          *)
(*                                                                         *)
(* The remote side is [secrets, authorizes, sheets]: the keys of           *)
(* st.secrets, whether the service account is accepted, and for each sheet *)
(* name whether it can be fetched and the grid of texts it holds (first    *)
(* row: the headers).  A DataFrame is [columns, rows], rows being          *)
(* sequences of cells in column order.                                     *)
(***************************************************************************)
MaxSheetRows == 1

\* pd.DataFrame()
EmptyDataFrame == [columns |-> <<>>, rows |-> <<>>]

\* df.empty: no row or no column
empty(d) == d.columns = <<>> \/ d.rows = <<>>

\* pd.DataFrame(values, columns=headers): the texts as they are
DataFrame(values, headers) ==
    [columns |-> headers,
     rows |-> [i \in 1..Len(values) |->
                [c \in 1..Len(values[i]) |-> StrCell(values[i][c])]]]

\* pd.read_csv: the first line names the columns, an empty field is NaN
read_csv(data) ==
    [columns |-> Head(data),
     rows |-> [i \in 1..(Len(data) - 1) |->
                [c \in 1..Len(data[i + 1]) |->
                    IF data[i + 1][c] = <<>> THEN NaN
                    ELSE StrCell(data[i + 1][c])]]]

\* the tuple returned, and the st.error messages shown on the way
connect_to_sheets(rem) ==
    IF "gcp_service_account" \in rem.secrets
    THEN IF rem.authorizes
         THEN [value |-> <<"client", "sheet_id">>, errors |-> <<>>]
         ELSE [value |-> <<"None", "None", "None">>,
               errors |-> <<"Error connecting to Google Sheets">>]
    ELSE [value |-> <<"None", "sheet_id", "url">>, errors |-> <<>>]

\* what load_dataset returns: the exception it caught ("" if none), the
\* st.error messages shown, and the DataFrame
load_dataset(rem, sheet_name) ==
    LET conn == connect_to_sheets(rem)
        sheet == rem.sheets[sheet_name]
        caught(exception) ==
            [op |-> "load_dataset", sheet_name |-> sheet_name, raised |-> "",
             exception |-> exception,
             errors |-> Append(conn.errors, "Error loading data from sheet"),
             df |-> EmptyDataFrame]
        loaded(d) ==
            [op |-> "load_dataset", sheet_name |-> sheet_name, raised |-> "",
             exception |-> "", errors |-> conn.errors, df |-> d]
    IN  IF Len(conn.value) # 3 THEN caught("ValueError")
        ELSE LET client == conn.value[1]
                 url == conn.value[3]
             IN  IF client # "None"
                 THEN IF ~sheet.reachable THEN caught("APIError")
                      ELSE IF sheet.data # <<>>
                      THEN loaded(DataFrame(Tail(sheet.data), Head(sheet.data)))
                      ELSE loaded(EmptyDataFrame)
                 ELSE IF url = "None" THEN caught("FileNotFoundError")
                      ELSE IF ~sheet.reachable THEN caught("HTTPError")
                      ELSE IF sheet.data = <<>> THEN caught("EmptyDataError")
                      ELSE loaded(read_csv(sheet.data))

\* df_sp.columns[0], [1], [3], [4] and df_berita.columns[1], [3], [4], [0]
column_definitions(sp, berita) ==
    IF Len(sp.columns) < 5 \/ Len(berita.columns) < 5
    THEN [op |-> "main", raised |-> "IndexError", errors |-> <<>>]
    ELSE [op |-> "main", raised |-> "", errors |-> <<>>]

(***************************************************************************)
(* Specification of the start of a render: every combination of            *)
(* credentials and of the state of the two sheets.                         *)
(***************************************************************************)
SheetNames == {"DATASET SP", "DATASET BERITA"}

HeaderNames == <<<<"A">>, <<"B">>, <<"C">>, <<"D">>, <<"E">>>>

\* sheets of two columns and of five
SheetWidths == {2, 5}

\* a row of texts, with or without a blank first field
SheetRowsOf(n) ==
    {[c \in 1..n |-> <<"x">>],
     [c \in 1..n |-> IF c = 1 THEN <<>> ELSE <<"x">>]}

\* an empty grid, or the headers and up to MaxSheetRows rows
SheetData ==
    {<<>>} \cup
    UNION {{<<SubSeq(HeaderNames, 1, n)>> \o values :
                values \in SeqsUpTo(SheetRowsOf(n), MaxSheetRows)} :
           n \in SheetWidths}

SheetStates ==
    {[reachable |-> FALSE, data |-> <<>>]}
        \cup {[reachable |-> TRUE, data |-> d] : d \in SheetData}

Remotes ==
    {[secrets |-> se, authorizes |-> au, sheets |-> sh] :
        se \in {{}, {"gcp_service_account"}},
        au \in BOOLEAN,
        sh \in [SheetNames -> SheetStates]}

InitMain ==
    /\ pc = "main"
    /\ remote \in {r \in Remotes : r.secrets = {} => r.authorizes}
    /\ frames = <<>>
    /\ ExtractIdle
    /\ AggregateIdle
    /\ DashboardIdle

\* df_sp = load_dataset("DATASET SP")
LoadDatasetSp ==
    /\ pc = "main"
    /\ returned' = load_dataset(remote, "DATASET SP")
    /\ frames' = [df_sp |-> returned'.df]
    /\ pc' = "sp_loaded"
    /\ UNCHANGED <<cell_value, filtered_entities, df, column_name,
                   df_sp, selected_sp, start_date, end_date, df_sp_filtered,
                   df_berita, media_per_sp, berita_per_sp, remote>>

\* df_berita = load_dataset("DATASET BERITA")
LoadDatasetBerita ==
    /\ pc = "sp_loaded"
    /\ returned' = load_dataset(remote, "DATASET BERITA")
    /\ frames' = [df_sp |-> frames.df_sp, df_berita |-> returned'.df]
    /\ pc' = "loaded"
    /\ UNCHANGED <<cell_value, filtered_entities, df, column_name,
                   df_sp, selected_sp, start_date, end_date, df_sp_filtered,
                   df_berita, media_per_sp, berita_per_sp, remote>>

\* if df_sp.empty and df_berita.empty: st.error("Gagal memuat data"); return
GagalMemuatData ==
    /\ pc = "loaded"
    /\ empty(frames.df_sp) /\ empty(frames.df_berita)
    /\ returned' = [op |-> "main", raised |-> "",
                    errors |-> <<"Gagal memuat data">>]
    /\ pc' = "main_returned"
    /\ UNCHANGED <<cell_value, filtered_entities, df, column_name,
                   df_sp, selected_sp, start_date, end_date, df_sp_filtered,
                   df_berita, media_per_sp, berita_per_sp, remote, frames>>

\* the column definitions; the tabs follow when they do not raise
ColumnDefinitions ==
    /\ pc = "loaded"
    /\ ~(empty(frames.df_sp) /\ empty(frames.df_berita))
    /\ returned' = column_definitions(frames.df_sp, frames.df_berita)
    /\ pc' = IF returned'.raised = "" THEN "tabs" ELSE "main_raised"
    /\ UNCHANGED <<cell_value, filtered_entities, df, column_name,
                   df_sp, selected_sp, start_date, end_date, df_sp_filtered,
                   df_berita, media_per_sp, berita_per_sp, remote, frames>>

NextMain ==
    \/ LoadDatasetSp
    \/ LoadDatasetBerita
    \/ GagalMemuatData
    \/ ColumnDefinitions

SpecMain == InitMain /\ [][NextMain]_vars

\* C13: load_dataset never raises; with service-account credentials
\* configured and accepted it returns the rows of a worksheet that holds
\* data (first row as the column names, the other rows as the records) and
\* not the empty failure dataset; and whenever it fails it returns an empty
\* dataset and shows an error.
C13_CredentialsLoadWorksheet ==
    (pc \in {"sp_loaded", "loaded"}) =>
        LET sheet == remote.sheets[returned.sheet_name]
        IN  /\ returned.raised = ""
            /\ (/\ "gcp_service_account" \in remote.secrets
                /\ remote.authorizes
                /\ sheet.reachable
                /\ sheet.data # <<>>)
                  => /\ returned.exception = ""
                     /\ returned.df.columns = sheet.data[1]
                     /\ Len(returned.df.rows) = Len(sheet.data) - 1
                     /\ \A i \in 1..Len(returned.df.rows) :
                          \A c \in 1..Len(sheet.data[i + 1]) :
                            returned.df.rows[i][c] = StrCell(sheet.data[i + 1][c])
            /\ returned.exception # ""
                  => returned.df = EmptyDataFrame /\ returned.errors # <<>>

\* C11: a render in which a dataset has no record (the other one, if it
\* has records, having all the columns main reads) never raises: main
\* returns after 'Gagal memuat data' or goes on to the tabs, also when
\* exactly one of the two datasets is empty.
C11_EmptyDatasetNeverRaises ==
    (/\ pc \in {"main_returned", "main_raised", "tabs"}
     /\ frames.df_sp.rows = <<>> \/ frames.df_berita.rows = <<>>
     /\ \A d \in {frames.df_sp, frames.df_berita} :
            d.rows = <<>> \/ Len(d.columns) >= 5)
        => /\ returned.raised = ""
           /\ pc = "main_returned" <=>
                (frames.df_sp.rows = <<>> /\ frames.df_berita.rows = <<>>)

Init ==
    \/ InitExtract
    \/ InitAggregate
    \/ InitTrend
    \/ InitRender
    \/ InitJoin
    \/ InitMain

Next ==
    \/ NextExtract
    \/ NextAggregate
    \/ NextTrend
    \/ NextRender
    \/ NextJoin
    \/ NextMain

Spec == Init /\ [][Next]_vars

====
